---------------------------- MODULE Spec2Model ----------------------------
(***************************************************************************)
(* Model of skills/youtube-transcript/transcript.py: the identifier        *)
(* extractor, the secrets loader, the two transcript tiers, their          *)
(* composition in get_transcript and the command line entry point main.    *)
(*                                                                         *)
(* Python strings that the program inspects character by character (the    *)
(* input string, language codes, transcript text) are sequences of         *)
(* one-character strings.  Messages the program only builds and passes on  *)
(* are TLA+ strings.  A Python dict is a function from key strings to      *)
(* values; "k in d" is k \in DOMAIN d.  A value of type str | None is a    *)
(* sequence of length at most one: None is <<>> and the string s is <<s>>. *)
(***************************************************************************)
EXTENDS Integers, Sequences, FiniteSets, TLC

(***************************************************************************)
(* Bounds of the model.                                                    *)
(***************************************************************************)
MaxSnippets == 2
MaxContentLen == 2

(***************************************************************************)
(* Python values.                                                          *)
(***************************************************************************)
None == <<>>
Some(v) == <<v>>
Truthy(o) == o # None /\ Len(o[1]) > 0
Get(d, k, default) == IF k \in DOMAIN d THEN d[k] ELSE default
EmptyDict == <<>>
Unbound == "<unbound>"

(***************************************************************************)
(* Characters.  Surrogate stands for a lone surrogate code point, which is *)
(* what an undecodable byte of the command line becomes in sys.argv.       *)
(***************************************************************************)
Surrogate == "<udcff>"
Whitespace == {" ", "\n", "\t"}
IdClass ==
  {"a","b","c","d","e","f","g","h","i","j","k","l","m",
   "n","o","p","q","r","s","t","u","v","w","x","y","z",
   "A","B","C","D","E","F","G","H","I","J","K","L","M",
   "N","O","P","Q","R","S","T","U","V","W","X","Y","Z",
   "0","1","2","3","4","5","6","7","8","9","_","-"}
IdLen == 11

(***************************************************************************)
(* extract_video_id.  re.search tries every start position from the left   *)
(* and, at one position, the alternatives of the group in order.           *)
(***************************************************************************)
Alternatives ==
  << <<"v","=">>, <<"/","v","/">>, <<"y","o","u","t","u",".","b","e","/">> >>

LiteralAt(s, i, lit) ==
  /\ i + Len(lit) - 1 <= Len(s)
  /\ \A k \in 1..Len(lit) : s[i + k - 1] = lit[k]

IdRunAt(s, i) ==
  /\ i + IdLen - 1 <= Len(s)
  /\ \A k \in 0..(IdLen - 1) : s[i + k] \in IdClass

RECURSIVE AlternativeAt(_, _, _)
AlternativeAt(s, i, a) ==
  IF a > Len(Alternatives) THEN None
  ELSE IF LiteralAt(s, i, Alternatives[a]) /\ IdRunAt(s, i + Len(Alternatives[a]))
       THEN Some(SubSeq(s, i + Len(Alternatives[a]),
                           i + Len(Alternatives[a]) + IdLen - 1))
       ELSE AlternativeAt(s, i, a + 1)

RECURSIVE SearchPrefixed(_, _)
SearchPrefixed(s, i) ==
  IF i > Len(s) THEN None
  ELSE IF AlternativeAt(s, i, 1) # None THEN AlternativeAt(s, i, 1)
       ELSE SearchPrefixed(s, i + 1)

(* '^([a-zA-Z0-9_-]{11})$': without re.MULTILINE, '$' matches at the end   *)
(* of the string and also just before one newline that ends the string.    *)
EndAnchorAt(s, i) ==
  \/ i = Len(s) + 1
  \/ i = Len(s) /\ s[i] = "\n"

(* The second pattern without its end anchor.                             *)
SearchBare_Unanchored(s) ==
  IF IdRunAt(s, 1) THEN Some(SubSeq(s, 1, IdLen)) ELSE None
SearchBare(s) ==
  IF IdRunAt(s, 1) /\ EndAnchorAt(s, IdLen + 1)
  THEN Some(SubSeq(s, 1, IdLen))
  ELSE None

extract_video_id(s) ==
  IF SearchPrefixed(s, 1) # None THEN SearchPrefixed(s, 1)
  ELSE SearchBare(s)

(***************************************************************************)
(* Inputs of the extractor: a prefix, one of the markers or a near miss,   *)
(* a body and a suffix, concatenated.                                      *)
(***************************************************************************)
VidA == <<"d","Q","w","4","w","9","W","g","X","c","Q">>
VidB == <<"n","o","t","-","a","-","v","i","d","e","o">>
NotAVideo == VidB
WatchUrl(id) == <<"w","a","t","c","h","?","v","=">> \o id
ShareUrl(id) == <<"h","t","t","p","s",":","/","/","y","o","u","t","u",".","b","e","/">> \o id

Prefixes == { <<>>, <<"w","?">>, <<"\n">>, <<"v","=","x","&">> }
Markers ==
  { <<>>, <<"v","=">>, <<"/","v","/">>, <<"y","o","u","t","u",".","b","e","/">>,
    <<"y","o","u","t","u","X","b","e","/">>, <<"v","/">> }
Bodies ==
  { VidA, VidB, SubSeq(VidA, 1, IdLen - 1),
    <<"n","o","t"," ","a"," ","v","i","d","e","o">>, <<>> }
Suffixes == { <<>>, <<"\n">>, <<"x">>, <<"&","t">>, <<"\n","\n">> }
ExtractInputs ==
  { p \o m \o b \o x : p \in Prefixes, m \in Markers, b \in Bodies, x \in Suffixes }
    \cup { WatchUrl(VidA), ShareUrl(VidA) }


(***************************************************************************)
(* load_supadata_key, as a function of the secrets file.  A file that is   *)
(* missing, that does not parse, or whose JSON value has no get method     *)
(* yields None; an object yields its api_key member, None when it has no   *)
(* such member.                                                            *)
(***************************************************************************)
SecretsFiles ==
  { [exists |-> FALSE, parses |-> FALSE, object |-> EmptyDict],
    [exists |-> TRUE,  parses |-> FALSE, object |-> EmptyDict],
    [exists |-> TRUE,  parses |-> TRUE,  object |-> EmptyDict],
    [exists |-> TRUE,  parses |-> TRUE,  object |-> [api_key |-> <<>>]],
    [exists |-> TRUE,  parses |-> TRUE,  object |-> [api_key |-> <<"k","1">>]] }

load_supadata_key(file) ==
  IF file.exists
  THEN IF file.parses /\ "api_key" \in DOMAIN file.object
       THEN Some(file.object.api_key)
       ELSE None
  ELSE None

(***************************************************************************)
(* Text: ' '.join(...), re.sub(r'\s+', ' ', text) and str.strip().         *)
(***************************************************************************)
RECURSIVE Join(_)
Join(texts) ==
  IF texts = <<>> THEN <<>>
  ELSE IF Len(texts) = 1 THEN texts[1]
  ELSE texts[1] \o <<" ">> \o Join(Tail(texts))

RECURSIVE SkipWhitespace(_)
SkipWhitespace(t) ==
  IF t # <<>> /\ Head(t) \in Whitespace THEN SkipWhitespace(Tail(t)) ELSE t

RECURSIVE SubWhitespace(_)
SubWhitespace(t) ==
  IF t = <<>> THEN <<>>
  ELSE IF Head(t) \in Whitespace
       THEN <<" ">> \o SubWhitespace(SkipWhitespace(t))
       ELSE <<Head(t)>> \o SubWhitespace(Tail(t))

RECURSIVE RStrip(_)
RStrip(t) ==
  IF t # <<>> /\ t[Len(t)] \in Whitespace THEN RStrip(SubSeq(t, 1, Len(t) - 1)) ELSE t

Strip(t) == RStrip(SkipWhitespace(t))

(* str.split(','): one more item than there are commas.                    *)
RECURSIVE Split(_)
Split(s) ==
  LET commas == { i \in 1..Len(s) : s[i] = "," } IN
  IF commas = {} THEN <<s>>
  ELSE LET c == CHOOSE i \in commas : \A j \in commas : i <= j
       IN  <<SubSeq(s, 1, c - 1)>> \o Split(SubSeq(s, c + 1, Len(s)))

(***************************************************************************)
(* Language codes and the texts the two services can deliver.              *)
(***************************************************************************)
En == <<"e","n">>
Ru == <<"r","u">>
De == <<"d","e">>
DefaultLanguages == <<En, Ru>>

TextChars == {"a", " ", "\n", "\t"}
RECURSIVE Texts(_)
Texts(n) ==
  IF n = 0 THEN { <<>> }
  ELSE Texts(n - 1) \cup { Append(t, c) : t \in Texts(n - 1), c \in TextChars }

SnippetTexts == { <<>>, <<"a">>, <<" ","\t">>, <<"a","\n","\n","b">> }
RECURSIVE SnippetLists(_)
SnippetLists(n) ==
  IF n = 0 THEN { <<>> }
  ELSE SnippetLists(n - 1)
         \cup { Append(l, t) : l \in SnippetLists(n - 1), t \in SnippetTexts }

(***************************************************************************)
(* The Supadata service as urlopen sees it: a JSON body, an HTTP error     *)
(* status, or another exception (no route, timeout, a body that is not     *)
(* JSON).                                                                  *)
(***************************************************************************)
FullBody(c, l, a) == [content |-> c, lang |-> l, availableLangs |-> a]
JsonObjects ==
  { [k \in ks |-> FullBody(c, De, <<De, En>>)[k]] :
      ks \in SUBSET {"content", "lang", "availableLangs"}, c \in Texts(MaxContentLen) }

HttpOutcomes ==
  { [kind |-> "json_object", data |-> d] : d \in JsonObjects }
    \cup { [kind |-> "json_array"],
           [kind |-> "http_error", code |-> 500, reason |-> "Internal Server Error"],
           [kind |-> "exception", msg |-> "<urlopen error timed out>"] }

(* urllib.parse.urlencode encodes every value as UTF-8 with errors =        *)
(* 'strict': a lone surrogate raises UnicodeEncodeError.                    *)
Encodable(s) == \A i \in 1..Len(s) : s[i] # Surrogate
urlencode_raises(u, language) == ~Encodable(u) \/ ~Encodable(language)

(* Lines 61-78: the request and the mapping of its outcome to a dict.       *)
supadata_response(vid, language, outcome) ==
  IF outcome.kind = "json_object"
  THEN [video_id |-> vid,
        transcript |-> Get(outcome.data, "content", <<>>),
        language |-> Get(outcome.data, "lang", language),
        available_languages |-> Get(outcome.data, "availableLangs", <<>>),
        source |-> "supadata"]
  ELSE IF outcome.kind = "json_array"
  THEN [error |-> "Supadata request failed: " \o "'list' object has no attribute 'get'"]
  ELSE IF outcome.kind = "http_error"
  THEN [error |-> "Supadata API error: " \o ToString(outcome.code) \o " - " \o outcome.reason]
  ELSE [error |-> "Supadata request failed: " \o outcome.msg]

(***************************************************************************)
(* YouTube as the youtube-transcript-api library sees it: no video can be  *)
(* fetched (the library is missing, the address is blocked), or one video  *)
(* has captions in some languages.  fetch takes the first requested        *)
(* language that has captions.                                             *)
(***************************************************************************)
Worlds ==
  { [video |-> None, langs |-> {}, snippets |-> <<>>, is_generated |-> FALSE] }
    \cup { [video |-> Some(v), langs |-> ls, snippets |-> sn, is_generated |-> g] :
             v \in {VidA, VidB}, ls \in { {}, {Ru}, {En, De} },
             sn \in SnippetLists(MaxSnippets), g \in BOOLEAN }

fetch(world, vid, languages) ==
  LET hits == { i \in 1..Len(languages) : languages[i] \in world.langs } IN
  IF world.video = None THEN [ok |-> FALSE, msg |-> "RequestBlocked"]
  ELSE IF world.video # Some(vid) THEN [ok |-> FALSE, msg |-> "VideoUnavailable"]
  ELSE IF hits = {} THEN [ok |-> FALSE, msg |-> "NoTranscriptFound"]
  ELSE [ok |-> TRUE,
        snippets |-> world.snippets,
        language |-> languages[CHOOSE i \in hits : \A j \in hits : i <= j],
        is_generated |-> world.is_generated]

get_transcript_ytapi(vid, languages, world) ==
  LET transcript == fetch(world, vid, languages) IN
  IF transcript.ok
  THEN [video_id |-> vid,
        transcript |-> Strip(SubWhitespace(Join(transcript.snippets))),
        language |-> transcript.language,
        is_generated |-> transcript.is_generated,
        source |-> "youtube-transcript-api"]
  ELSE [error |-> transcript.msg, source |-> "youtube-transcript-api"]

(***************************************************************************)
(* get_transcript, lines 116-130: the decisions between the two tiers.     *)
(***************************************************************************)
(* The test of line 110 left out.                                          *)
NoVideoId_Unchecked(vid) == FALSE
NoVideoId(vid) == ~Truthy(vid)

(* The test of line 116 inverted.                                          *)
PrimarySucceeded_Inverted(r) == "error" \in DOMAIN r
PrimarySucceeded(r) == "error" \notin DOMAIN r

(* The fallback called like the primary, with the first language only.    *)
FallbackArgs_FirstLanguage(u, vid, languages) ==
  [video_id |-> vid, languages |-> <<languages[1]>>]
FallbackArgs(u, vid, languages) == [video_id |-> vid, languages |-> languages]

(* The primary's message stored under 'error' of whatever came back.      *)
Compose_Overwrite(r, primary_error) ==
  [k \in DOMAIN r \cup {"error"} |-> IF k = "error" THEN primary_error ELSE r[k]]
(* The primary's message dropped.                                          *)
Compose_Dropped(r, primary_error) == r
Compose(r, primary_error) ==
  IF "error" \in DOMAIN r
  THEN [k \in DOMAIN r \cup {"supadata_error"} |->
          IF k = "supadata_error" THEN primary_error ELSE r[k]]
  ELSE r

(* main, lines 144-145, and the status of an uncaught exception.           *)
ExitCode(r) == IF "error" \in DOMAIN r /\ "transcript" \notin DOMAIN r THEN 1 ELSE 0

(***************************************************************************)
(* Command lines.                                                          *)
(***************************************************************************)
Prog == <<"t">>
Urls ==
  { VidA, WatchUrl(VidA), ShareUrl(VidB),
    <<"n","o","t"," ","a"," ","v","i","d","e","o">>,
    <<"v","=">> \o VidA \o <<Surrogate>> }
LangArgs == { <<"r","u",",","e","n">>, <<>>, <<",","d","e">> }
Argvs ==
  { <<Prog>> } \cup { <<Prog, u>> : u \in Urls }
    \cup { <<Prog, u, l>> : u \in Urls, l \in LangArgs }

(***************************************************************************)
(* State.                                                                  *)
(***************************************************************************)
VARIABLES
  argv,            \* sys.argv
  secrets,         \* the file at SECRETS_PATH
  pc,              \* position of the process
  url,             \* main and get_transcript: url
  languages,       \* main and get_transcript: languages
  video_id,        \* get_transcript: video_id
  api_key,         \* get_transcript_supadata: api_key
  result,          \* get_transcript: result
  supadata_error,  \* get_transcript: supadata_error
  youtube,         \* what the library call found
  calls,           \* the calls made so far to the loader, the tiers and the
                   \* two services, in order, with what the services answered
  stdout,          \* the objects printed so far
  exit_code        \* the exit status, -1 while running

vars == <<argv, secrets, pc, url, languages, video_id, api_key, result,
          supadata_error, youtube, calls, stdout, exit_code>>

NotObserved == [video |-> None, langs |-> {}, snippets |-> <<>>, is_generated |-> FALSE]

Locals ==
  /\ pc = "main"
  /\ url = <<>>
  /\ languages = <<>>
  /\ video_id = None
  /\ api_key = None
  /\ result = EmptyDict
  /\ supadata_error = Unbound
  /\ youtube = NotObserved
  /\ calls = <<>>
  /\ stdout = <<>>
  /\ exit_code = -1

Init ==
  /\ argv \in Argvs
  /\ secrets \in SecretsFiles
  /\ Locals

(* main, lines 133-138.                                                    *)
Main_Args ==
  /\ pc = "main"
  /\ IF Len(argv) < 2
     THEN /\ stdout' = Append(stdout, [error |-> "URL or video ID required"])
          /\ exit_code' = 1
          /\ pc' = "exited"
          /\ UNCHANGED <<url, languages>>
     ELSE /\ url' = argv[2]
          /\ languages' = IF Len(argv) > 2 THEN Split(argv[3]) ELSE DefaultLanguages
          /\ pc' = "get_transcript"
          /\ UNCHANGED <<stdout, exit_code>>
  /\ UNCHANGED <<argv, secrets, video_id, api_key, result, supadata_error, youtube, calls>>

(* get_transcript, lines 109-111.                                          *)
GetTranscript_Extract ==
  /\ pc = "get_transcript"
  /\ video_id' = extract_video_id(url)
  /\ IF NoVideoId(extract_video_id(url))
     THEN /\ result' = [error |-> "Invalid YouTube URL or video ID"]
          /\ pc' = "print"
     ELSE /\ pc' = "check_key"
          /\ UNCHANGED result
  /\ UNCHANGED <<argv, secrets, url, languages, api_key, supadata_error, youtube,
                 calls, stdout, exit_code>>

(* get_transcript, lines 114 and 120-121.                                  *)
GetTranscript_CheckKey ==
  /\ pc = "check_key"
  /\ IF Truthy(load_supadata_key(secrets))
     THEN /\ pc' = "supadata"
          /\ UNCHANGED supadata_error
     ELSE /\ supadata_error' = "No API key"
          /\ pc' = "ytapi"
  /\ calls' = Append(calls, [call |-> "load_supadata_key",
                             returned |-> load_supadata_key(secrets)])
  /\ UNCHANGED <<argv, secrets, url, languages, video_id, api_key, result, youtube,
                 stdout, exit_code>>

(* get_transcript_supadata, lines 45-59: up to the request.  The exception *)
(* of urlencode is raised outside every try block and ends the process     *)
(* with a traceback and status 1.                                          *)
Supadata_Prepare ==
  /\ pc = "supadata"
  /\ api_key' = load_supadata_key(secrets)
  /\ IF ~Truthy(load_supadata_key(secrets))
     THEN /\ result' = [error |-> "Supadata API key not configured"]
          /\ pc' = "supadata_returned"
          /\ UNCHANGED exit_code
     ELSE IF ~Truthy(extract_video_id(url))
     THEN /\ result' = [error |-> "Invalid YouTube URL"]
          /\ pc' = "supadata_returned"
          /\ UNCHANGED exit_code
     ELSE IF urlencode_raises(url, languages[1])
     THEN /\ pc' = "crashed"
          /\ exit_code' = 1
          /\ UNCHANGED result
     ELSE /\ pc' = "urlopen"
          /\ UNCHANGED <<result, exit_code>>
  /\ calls' = calls \o
       << [call |-> "get_transcript_supadata", url |-> url, language |-> languages[1]],
          [call |-> "load_supadata_key", returned |-> load_supadata_key(secrets)] >>
  /\ UNCHANGED <<argv, secrets, url, languages, video_id, supadata_error, youtube,
                 stdout>>

(* get_transcript_supadata, lines 61-78.                                   *)
Supadata_Request ==
  /\ pc = "urlopen"
  /\ \E outcome \in HttpOutcomes :
       /\ calls' = Append(calls, [call |-> "urlopen", url |-> url,
                                  lang |-> languages[1], key |-> api_key[1],
                                  outcome |-> outcome])
       /\ result' = supadata_response(extract_video_id(url)[1], languages[1], outcome)
  /\ pc' = "supadata_returned"
  /\ UNCHANGED <<argv, secrets, url, languages, video_id, api_key, supadata_error,
                 youtube, stdout, exit_code>>

(* get_transcript, lines 116-119.                                          *)
GetTranscript_AfterSupadata ==
  /\ pc = "supadata_returned"
  /\ IF PrimarySucceeded(result)
     THEN /\ pc' = "print"
          /\ UNCHANGED supadata_error
     ELSE /\ supadata_error' = Get(result, "error", "Unknown error")
          /\ pc' = "ytapi"
  /\ UNCHANGED <<argv, secrets, url, languages, video_id, api_key, result, youtube,
                 calls, stdout, exit_code>>

(* get_transcript, lines 124-130, with get_transcript_ytapi, lines 82-99.  *)
GetTranscript_Fallback ==
  /\ pc = "ytapi"
  /\ \E world \in Worlds :
       LET args == FallbackArgs(url, video_id[1], languages) IN
       /\ youtube' = world
       /\ calls' = Append(calls, [call |-> "fetch", video_id |-> args.video_id,
                                  languages |-> args.languages])
       /\ result' = Compose(get_transcript_ytapi(args.video_id, args.languages, world),
                            supadata_error)
  /\ pc' = "print"
  /\ UNCHANGED <<argv, secrets, url, languages, video_id, api_key, supadata_error,
                 stdout, exit_code>>

(* main, lines 141-145.                                                    *)
Main_Print ==
  /\ pc = "print"
  /\ stdout' = Append(stdout, result)
  /\ exit_code' = ExitCode(result)
  /\ pc' = "exited"
  /\ UNCHANGED <<argv, secrets, url, languages, video_id, api_key, result,
                 supadata_error, youtube, calls>>

(* The environment rewrites or removes the secrets file while              *)
(* get_transcript is still ahead of a read of it.                          *)
SecretsChange ==
  /\ pc \in {"check_key", "supadata"}
  /\ \E f \in SecretsFiles : f # secrets /\ secrets' = f
  /\ UNCHANGED <<argv, pc, url, languages, video_id, api_key, result, supadata_error,
                 youtube, calls, stdout, exit_code>>

Next ==
  \/ Main_Args
  \/ GetTranscript_Extract
  \/ GetTranscript_CheckKey
  \/ Supadata_Prepare
  \/ Supadata_Request
  \/ GetTranscript_AfterSupadata
  \/ GetTranscript_Fallback
  \/ Main_Print
  \/ SecretsChange

Spec == Init /\ [][Next]_vars

(***************************************************************************)
(* The extractor on its own: main and get_transcript up to the extraction, *)
(* on every input of ExtractInputs.                                        *)
(***************************************************************************)
ExtractInit ==
  /\ argv \in { <<Prog, u>> : u \in ExtractInputs }
  /\ secrets \in SecretsFiles
  /\ Locals

ExtractNext ==
  \/ Main_Args
  \/ GetTranscript_Extract

ExtractSpec == ExtractInit /\ [][ExtractNext]_vars
(***************************************************************************)
(* Properties.                                                             *)
(***************************************************************************)
Made(name) == \E i \in 1..Len(calls) : calls[i].call = name
TierCalls ==
  SelectSeq([i \in 1..Len(calls) |-> calls[i].call],
            LAMBDA c : c \in {"get_transcript_supadata", "urlopen", "fetch"})
Returned == pc = "print"
HasKey(file) == Truthy(load_supadata_key(file))

(* C1: a result returned by get_transcript has a 'transcript' field or an  *)
(* 'error' field, and never both or neither.                               *)
C1_TranscriptOrError ==
  Returned => (("transcript" \in DOMAIN result) # ("error" \in DOMAIN result))

C1_Witness ==
  /\ Returned
  /\ Made("urlopen") /\ Made("fetch")
  /\ "transcript" \in DOMAIN result

(* C2: in one invocation the primary tier is attempted at most once and    *)
(* the secondary at most once, the primary first; the secondary starts     *)
(* only when the primary was skipped or has returned an error; and a       *)
(* primary success is returned as it is, the secondary not being tried.    *)
C2_TiersOnceInOrder ==
  /\ TierCalls \in { <<>>,
                     <<"get_transcript_supadata">>,
                     <<"get_transcript_supadata", "urlopen">>,
                     <<"fetch">>,
                     <<"get_transcript_supadata", "fetch">>,
                     <<"get_transcript_supadata", "urlopen", "fetch">> }
  /\ \A i \in 1..Len(calls) :
       calls[i].call = "fetch" =>
         /\ supadata_error # Unbound
         /\ \A j \in 1..(i - 1) :
              calls[j].call = "urlopen" => calls[j].outcome.kind # "json_object"
  /\ \A j \in 1..Len(calls) :
       (calls[j].call = "urlopen" /\ calls[j].outcome.kind = "json_object") =>
         /\ j = Len(calls)
         /\ pc \in {"supadata_returned", "print", "exited"}
         /\ "transcript" \in DOMAIN result /\ result.source = "supadata"

C2_Witness ==
  /\ pc = "exited"
  /\ TierCalls = <<"get_transcript_supadata", "urlopen", "fetch">>

(* C7: when the input string yields no video identifier, get_transcript    *)
(* returns an error result at once: it reads no credentials, enters no     *)
(* tier and makes neither the HTTP request nor the library call.           *)
C7_InvalidInputShortCircuits ==
  (Len(argv) >= 2 /\ extract_video_id(argv[2]) = None) =>
    /\ calls = <<>>
    /\ pc \in {"main", "get_transcript", "print", "exited"}
    /\ pc \in {"print", "exited"} =>
         /\ "error" \in DOMAIN result /\ "transcript" \notin DOMAIN result
         /\ result.error = "Invalid YouTube URL or video ID"

C7_Witness ==
  /\ pc = "exited"
  /\ Len(argv) >= 2 /\ extract_video_id(argv[2]) = None
  /\ HasKey(secrets)
  /\ "error" \in DOMAIN result
(***************************************************************************)
(* The secondary tier called on its own with the identifier of the input   *)
(* and the whole language list, against what the library found.            *)
(***************************************************************************)
Isolated == get_transcript_ytapi(extract_video_id(url)[1], languages, youtube)
Without(r, key) == [k \in DOMAIN r \ {key} |-> r[k]]
ErrorOutcomes == { o \in HttpOutcomes : o.kind # "json_object" }
PrimaryErrorMessages ==
  { supadata_response(VidA, En, o).error : o \in ErrorOutcomes }
    \cup { "Supadata API key not configured", "Invalid YouTube URL" }
(* The primary tier was entered and returned an error, by a failed         *)
(* request or before any request, and the secondary tier returned.         *)
FellBackAfterPrimaryFailure ==
  /\ Returned
  /\ Made("get_transcript_supadata") /\ Made("fetch")
(* The same with credentials present throughout and the request failing.   *)
FellBackAfterFailedRequest ==
  /\ FellBackAfterPrimaryFailure
  /\ Made("urlopen")

(* C3 as stated: after a failed primary call the result is the isolated    *)
(* secondary result plus a recorded primary error message, whether the     *)
(* secondary call succeeds or fails.                                       *)
C3_AsStated ==
  FellBackAfterFailedRequest =>
    /\ "supadata_error" \in DOMAIN result
    /\ result.supadata_error \in PrimaryErrorMessages
    /\ Without(result, "supadata_error") = Isolated

(* C3 amended: after a failed primary call the result is the isolated      *)
(* secondary result; the primary error message is added to it, as          *)
(* 'supadata_error', when and only when the secondary call failed.         *)
C3_FallbackEqualsIsolated ==
  FellBackAfterPrimaryFailure =>
    IF "error" \in DOMAIN Isolated
    THEN /\ "supadata_error" \in DOMAIN result
         /\ result.supadata_error \in PrimaryErrorMessages
         /\ Without(result, "supadata_error") = Isolated
    ELSE result = Isolated

C3_Witness ==
  /\ FellBackAfterFailedRequest
  /\ "transcript" \in DOMAIN result
  /\ result.language # languages[1]

SecondaryFailed == Returned /\ Made("fetch") /\ "error" \in DOMAIN result
(* The video exists, so that its transcript languages can be listed.       *)
EnumerationSucceeds == youtube.video = video_id

(* C4: when the secondary attempt fails the available transcript           *)
(* languages are enumerated, and the error result carries the list         *)
(* whenever the enumeration succeeded (stated for the videos whose         *)
(* languages can be listed).                                               *)
C4_LanguagesEnumerated ==
  (SecondaryFailed /\ EnumerationSucceeds) =>
    /\ Made("list")
    /\ "available_languages" \in DOMAIN result

(* C5: the transcript text of every transcript result is whitespace        *)
(* normalized: single spaces only, none of them leading or trailing.       *)
IsNormalized(t) ==
  \A i \in 1..Len(t) :
    t[i] \in Whitespace =>
      /\ t[i] = " "
      /\ i > 1 /\ i < Len(t)
      /\ t[i + 1] \notin Whitespace
C5_TranscriptNormalized ==
  (Returned /\ "transcript" \in DOMAIN result) => IsNormalized(result.transcript)

(* C6: when both tiers fail for a valid identifier the error result has    *)
(* the secondary's error under 'error' and, under 'supadata_error', the    *)
(* primary's own message if the primary was attempted and 'No API key' if  *)
(* it was skipped.                                                         *)
C6_BothErrorsReported ==
  SecondaryFailed =>
    /\ result.error = fetch(youtube, extract_video_id(url)[1], languages).msg
    /\ result.source = "youtube-transcript-api"
    /\ "supadata_error" \in DOMAIN result
    /\ IF Made("get_transcript_supadata")
       THEN /\ result.supadata_error \in PrimaryErrorMessages
            /\ \A i \in 1..Len(calls) :
                 calls[i].call = "urlopen" =>
                   result.supadata_error =
                     supadata_response(extract_video_id(url)[1], languages[1],
                                       calls[i].outcome).error
            /\ ~Made("urlopen") => result.supadata_error = "Supadata API key not configured"
       ELSE result.supadata_error = "No API key"

C6_Witness ==
  /\ SecondaryFailed
  /\ Made("urlopen")
  /\ youtube.video = video_id

(* C8: main prints exactly one JSON object and then exits, with status 0   *)
(* for a transcript result and 1 for a missing argument or an error        *)
(* result; it never ends in an uncaught exception.                         *)
C8_OneObjectAndExitCode ==
  /\ pc # "crashed"
  /\ pc # "exited" => stdout = <<>> /\ exit_code = -1
  /\ pc = "exited" =>
       /\ Len(stdout) = 1
       /\ exit_code = IF "transcript" \in DOMAIN stdout[1] THEN 0 ELSE 1
       /\ ("transcript" \in DOMAIN stdout[1]) # ("error" \in DOMAIN stdout[1])

(* C10: the API key is loaded once: every credentials check of one         *)
(* invocation sees the same value, and a primary attempt that was entered  *)
(* because credentials were present never ends with 'key not configured'.  *)
C10_KeyLoadedOnce ==
  /\ \A i, j \in 1..Len(calls) :
       (calls[i].call = "load_supadata_key" /\ calls[j].call = "load_supadata_key")
         => calls[i].returned = calls[j].returned
  /\ pc = "supadata_returned" =>
       Get(result, "error", "") # "Supadata API key not configured"

(***************************************************************************)
(* The extractor, stated over occurrences instead of a search.             *)
(***************************************************************************)
ClaimMarkers ==
  { <<"v","=">>, <<"/","v","/">>, <<"y","o","u","t","u",".","b","e","/">> }
IsId(s, i) == i + 10 <= Len(s) /\ \A k \in i..(i + 10) : s[k] \in IdClass
Occurrences(s) ==
  { o \in (1..Len(s)) \X ClaimMarkers :
      /\ o[1] + Len(o[2]) - 1 <= Len(s)
      /\ SubSeq(s, o[1], o[1] + Len(o[2]) - 1) = o[2]
      /\ IsId(s, o[1] + Len(o[2])) }
Following(s, o) == SubSeq(s, o[1] + Len(o[2]), o[1] + Len(o[2]) + 10)
Extracted == pc \in {"check_key", "print"}

(* C9 as stated: the 11 characters after a marker if there is one; else    *)
(* the whole string if and only if it is exactly 11 identifier characters; *)
(* else not-found; the three forms of one video agree and 'not-a-video'    *)
(* is not found.                                                           *)
C9_AsStated ==
  Extracted =>
    /\ IF Occurrences(url) # {}
       THEN \E o \in Occurrences(url) : video_id = Some(Following(url, o))
       ELSE IF Len(url) = 11 /\ IsId(url, 1)
       THEN video_id = Some(url)
       ELSE video_id = None
    /\ url \in {VidA, WatchUrl(VidA), ShareUrl(VidA)} => video_id = Some(VidA)
    /\ url = NotAVideo => video_id = None

(* C9 amended: the 11 characters after the leftmost marker that has 11     *)
(* identifier characters after it; else the first 11 characters if and     *)
(* only if the string is exactly 11 identifier characters, or those        *)
(* followed by one newline; else not-found; the three forms of one video   *)
(* agree, and 'not-a-video', being 11 identifier characters, is returned   *)
(* as an identifier.                                                       *)
C9_Extractor ==
  Extracted =>
    /\ IF Occurrences(url) # {}
       THEN \E o \in Occurrences(url) :
              /\ \A q \in Occurrences(url) : o[1] <= q[1]
              /\ video_id = Some(Following(url, o))
       ELSE IF IsId(url, 1) /\ (Len(url) = 11 \/ (Len(url) = 12 /\ url[12] = "\n"))
       THEN video_id = Some(SubSeq(url, 1, 11))
       ELSE video_id = None
    /\ url \in {VidA, WatchUrl(VidA), ShareUrl(VidA)} => video_id = Some(VidA)
    /\ url = NotAVideo => video_id = Some(NotAVideo)

C9_Witness ==
  /\ Extracted
  /\ url = NotAVideo \o <<"\n">>
  /\ video_id = Some(NotAVideo)
=============================================================================
